---- MODULE Spec2Model ----
(***************************************************************************)
(* PocketBase hooks of takodotid/pocketbase: the CIDR arithmetic, the      *)
(* auth-with-ip handler and the log-ingestion handler.                     *)
(*                                                                         *)
(* JavaScript strings that the code takes apart (addresses, allow-list     *)
(* entries) are sequences of one-character strings.  A JavaScript number   *)
(* is [nan, hi, lo] and stands for hi * 2^16 + lo with lo in 0..2^16-1 (hi *)
(* may be negative), since the 32-bit unsigned values of the code do not   *)
(* fit the integers of the model checker.                                  *)
(***************************************************************************)
EXTENDS Integers, Sequences, FiniteSets, TLC

VARIABLES
    store,      \* the record store: collections, their fields and records
    req,        \* the request handled last
    resp,       \* the response to it
    calls,      \* collaborators the handler invoked for it, in order
    issued,     \* every session issued so far (token-issuance collaborator)
    emitted,    \* every log record emitted so far (logging sinks)
    fn,         \* CIDR arithmetic: the function applied last
    arg,        \* CIDR arithmetic: its arguments
    out         \* CIDR arithmetic: its result

vars == <<store, req, resp, calls, issued, emitted, fn, arg, out>>

-----------------------------------------------------------------------------
(* JavaScript numbers and the 32-bit operators                             *)

Half == 2^16

NaN == [nan |-> TRUE, hi |-> 0, lo |-> 0]

\* the number hi * 2^16 + lo, normalised so that lo is in 0..2^16-1
Num(hi, lo) == [nan |-> FALSE, hi |-> hi + (lo \div Half), lo |-> lo % Half]

Small(n) == Num(0, n)

\* ToUint32: NaN becomes 0, any other number is taken modulo 2^32
ToUint32(x) == IF x.nan THEN Small(0) ELSE Num(x.hi % Half, x.lo)

\* ToInt32: the same bits read as a signed 32-bit number
ToInt32(x) ==
    LET u == ToUint32(x)
    IN  IF u.hi >= Half \div 2 THEN Num(u.hi - Half, u.lo) ELSE u

\* x + y of the language for a number y that fits the low half
Add(x, y) == IF x.nan \/ y.nan THEN NaN ELSE Num(x.hi + y.hi, x.lo + y.lo)

\* x << 8: ToInt32(x) shifted left by 8 bits, kept to 32 bits, signed
Shl8(x) ==
    LET u == ToUint32(x)
    IN  ToInt32(Num((u.hi % 256) * 256 + (u.lo \div 256), (u.lo % 256) * 256))

RECURSIVE BitAnd(_, _)
BitAnd(a, b) ==
    IF a = 0 \/ b = 0 THEN 0
    ELSE (a % 2) * (b % 2) + 2 * BitAnd(a \div 2, b \div 2)

\* x & y
And32(x, y) ==
    LET a == ToUint32(x)
        b == ToUint32(y)
    IN  ToInt32(Num(BitAnd(a.hi, b.hi), BitAnd(a.lo, b.lo)))

\* x | y
Or32(x, y) ==
    LET a == ToUint32(x)
        b == ToUint32(y)
    IN  ToInt32(Num(a.hi + b.hi - BitAnd(a.hi, b.hi), a.lo + b.lo - BitAnd(a.lo, b.lo)))

\* ~x
Not32(x) ==
    LET a == ToUint32(x)
    IN  ToInt32(Num(Half - 1 - a.hi, Half - 1 - a.lo))

\* x >>> 0
Ushr0(x) == ToUint32(x)

\* (x >>> n) & 255 for n in {24, 16, 8}, and x & 255 for n = 0
Byte(x, n) ==
    LET u == ToUint32(x)
    IN  CASE n = 24 -> u.hi \div 256
          [] n = 16 -> u.hi % 256
          [] n = 8  -> u.lo \div 256
          [] OTHER  -> u.lo % 256

\* x <= y for two numbers; any comparison with NaN is false
Leq(x, y) ==
    /\ ~x.nan
    /\ ~y.nan
    /\ \/ x.hi < y.hi
       \/ x.hi = y.hi /\ x.lo <= y.lo

-----------------------------------------------------------------------------
(* Strings                                                                 *)

Digits == <<"0", "1", "2", "3", "4", "5", "6", "7", "8", "9">>

IsDigit(c) == \E i \in 1..10 : Digits[i] = c

DigitVal(c) == (CHOOSE i \in 1..10 : Digits[i] = c) - 1

\* String(n) for an integer n >= 0: decimal, no leading zeros
RECURSIVE NumToStr(_)
NumToStr(n) ==
    IF n < 10 THEN <<Digits[n + 1]>>
    ELSE NumToStr(n \div 10) \o <<Digits[(n % 10) + 1]>>

\* parts.join(sep)
RECURSIVE Join(_, _)
Join(parts, sep) ==
    IF Len(parts) = 0 THEN <<>>
    ELSE IF Len(parts) = 1 THEN parts[1]
    ELSE parts[1] \o sep \o Join(Tail(parts), sep)

\* s.split(sep) for a one-character separator
RECURSIVE Split(_, _)
Split(s, sep) ==
    IF \A i \in 1..Len(s) : s[i] # sep THEN <<s>>
    ELSE LET k == CHOOSE i \in 1..Len(s) :
                      s[i] = sep /\ \A j \in 1..(i - 1) : s[j] # sep
         IN  <<SubSeq(s, 1, k - 1)>> \o Split(SubSeq(s, k + 1, Len(s)), sep)

\* s.includes(c)
Includes(s, c) == \E i \in 1..Len(s) : s[i] = c

\* the longest prefix of s made of digits
RECURSIVE DigitPrefix(_)
DigitPrefix(s) ==
    IF Len(s) = 0 \/ ~IsDigit(s[1]) THEN <<>>
    ELSE <<s[1]>> \o DigitPrefix(Tail(s))

\* the value of a non-empty sequence of digits
RECURSIVE DigitsVal(_)
DigitsVal(s) ==
    IF Len(s) = 1 THEN DigitVal(s[1])
    ELSE 10 * DigitsVal(SubSeq(s, 1, Len(s) - 1)) + DigitVal(s[Len(s)])

\* parseInt(s, 10): an optional sign, then the leading digits; NaN without
\* a digit; what follows the digits is ignored
ParseInt(s) ==
    LET neg  == Len(s) > 0 /\ s[1] = "-"
        body == IF Len(s) > 0 /\ s[1] \in {"-", "+"} THEN Tail(s) ELSE s
        ds   == DigitPrefix(body)
    IN  IF Len(ds) = 0 THEN NaN
        ELSE IF neg THEN Num(0, 0 - DigitsVal(ds))
        ELSE Small(DigitsVal(ds))

-----------------------------------------------------------------------------
(* CIDR arithmetic                                                         *)

\* ip.split(".").reduce((int, octet) => (int << 8) + parseInt(octet, 10), 0)
RECURSIVE Reduce(_, _)
Reduce(octets, int) ==
    IF Len(octets) = 0 THEN int
    ELSE Reduce(Tail(octets), Add(Shl8(int), ParseInt(octets[1])))

\* ipToInt without the closing >>> 0
ipToIntNoUshr(ip) == Reduce(Split(ip, "."), Small(0))

ipToInt(ip) == Ushr0(Reduce(Split(ip, "."), Small(0)))

intToIp(int) ==
    Join(<<NumToStr(Byte(int, 24)), NumToStr(Byte(int, 16)),
           NumToStr(Byte(int, 8)), NumToStr(Byte(int, 0))>>, <<".">>)

\* Number(s) for the numerals the allow-list entries of this model carry: the
\* empty string is 0, an optionally signed run of digits is its value, and
\* undefined (no "/" part, <<"undefined">>) or any other text is NaN
ToNumber(s) ==
    LET body == IF Len(s) > 0 /\ s[1] \in {"-", "+"} THEN Tail(s) ELSE s
    IN  IF Len(s) = 0 THEN Small(0)
        ELSE IF Len(body) > 0 /\ DigitPrefix(body) = body
             THEN ParseInt(s)
        ELSE NaN

\* 2 ** (32 - bits) - 1, as the 32 bits that ~ reads from it (ToInt32):
\* NaN stays NaN; a negative exponent gives a fraction in (-1, 0), read as 0;
\* exponents 0..53 give 2^e - 1 exactly, whose low 32 bits are min(e, 32)
\* ones; from 54 on the double rounds to 2^e, whose low 32 bits are 0
Pow2Minus1(bits) ==
    LET e == 32 - ((IF bits.hi < 0 THEN bits.lo - Half ELSE bits.lo))
    IN  IF bits.nan THEN NaN
        ELSE IF e < 0 \/ e >= 54 THEN Small(0)
        ELSE IF e <= 16 THEN Num(0, 2^e - 1)
        ELSE IF e <= 32 THEN Num(2^(e - 16) - 1, Half - 1)
        ELSE Num(Half - 1, Half - 1)

\* the mask without its complement
MaskNoNot(bits) == Ushr0(Pow2Minus1(bits))

\* const mask = ~(2 ** (32 - Number(bits)) - 1) >>> 0
Mask(bits) == Ushr0(Not32(Pow2Minus1(bits)))

\* const [ip, bits] = cidr.split("/")
CidrIp(cidr) == Split(cidr, "/")[1]

CidrBits(cidr) ==
    IF Len(Split(cidr, "/")) >= 2 THEN ToNumber(Split(cidr, "/")[2]) ELSE NaN

cidrToRange(cidr) ==
    LET ipInt     == ipToInt(CidrIp(cidr))
        mask      == Mask(CidrBits(cidr))
        network   == And32(ipInt, mask)
        broadcast == Or32(network, Ushr0(Not32(mask)))
    IN  <<intToIp(network), intToIp(broadcast)>>

\* ipInCidr without the test against the end of the range
ipInCidrStartOnly(ip, cidr) ==
    Leq(ipToInt(cidrToRange(cidr)[1]), ipToInt(ip))

ipInCidr(ip, cidr) ==
    LET ipInt      == ipToInt(ip)
        rangeStart == ipToInt(cidrToRange(cidr)[1])
        rangeEnd   == ipToInt(cidrToRange(cidr)[2])
    IN  Leq(rangeStart, ipInt) /\ Leq(ipInt, rangeEnd)

-----------------------------------------------------------------------------
(* JavaScript values of request bodies and record fields: [t, v] with t    *)
(* the type; strings compared as a whole carry a TLA+ string, strings the  *)
(* code takes apart (allow-list entries) carry a sequence of characters    *)

Undefined == [t |-> "undefined", v |-> 0]

Null == [t |-> "null", v |-> 0]

Str(s) == [t |-> "string", v |-> s]

Number(n) == [t |-> "number", v |-> n]

Bool(b) == [t |-> "boolean", v |-> b]

Arr(items) == [t |-> "array", v |-> items]

\* an object: its own enumerable entries <<key, value>> in enumeration order
Obj(entries) == [t |-> "object", v |-> entries]

\* ToBoolean(x); the strings it is applied to carry a TLA+ string
Truthy(x) ==
    CASE x.t \in {"undefined", "null"} -> FALSE
      [] x.t = "boolean" -> x.v
      [] x.t = "number"  -> x.v # 0
      [] x.t = "string"  -> x.v # ""
      [] OTHER -> TRUE

\* typeof x
TypeOf(x) == IF x.t \in {"null", "array", "object"} THEN "object" ELSE x.t

\* typeof x === "string"
IsString(x) == TypeOf(x) = "string"

\* Array.isArray(x)
IsArray(x) == x.t = "array"

\* x ||= d
OrAssign(x, d) == IF Truthy(x) THEN x ELSE d

-----------------------------------------------------------------------------
(* The record store (external collaborator) as the handlers read it        *)

CollectionNames == {"users", "posts"}

\* e.app.findCachedCollectionByNameOrId(name): throws when there is no such
\* collection or when the store fails
FindCollection(st, name, fault) ==
    IF fault \/ name \notin DOMAIN st
    THEN [value |-> Null, error |-> Str("collection lookup failed")]
    ELSE [value |-> [name |-> name], error |-> Null]

\* collection.isAuth()
IsAuth(st, name) == st[name].auth

\* collection.fields.find((f) => f.getName() === field)
HasField(st, name, field) == field.v \in st[name].fields

\* e.app.findFirstRecordByData(collection, key, value): the first record
\* whose field equals the value; throws when there is none or the store fails
FindRecord(st, name, key, value, fault) ==
    LET recs == st[name].records
        hits == {i \in 1..Len(recs) :
                    /\ recs[i].data[key.v].val.t = "string"
                    /\ recs[i].data[key.v].kind = "text"
                    /\ recs[i].data[key.v].val.v = value.v}
    IN  IF fault \/ hits = {}
        THEN [value |-> 0, error |-> Str("record lookup failed")]
        ELSE [value |-> CHOOSE i \in hits : \A j \in hits : i <= j,
              error |-> Null]

\* A field of a record is [kind, val]: kind "text" is a plain text field
\* holding the string val, kind "json" a JSON field holding the value val,
\* kind "empty" a JSON field without a decodable value.
\* JSON.parse(record.getString(field)): the field's text decoded; throws
\* when the text is not JSON (a plain text field, an empty or broken value)
ParseField(st, name, rec, field) ==
    LET f == st[name].records[rec].data[field.v]
    IN  IF f.kind = "json"
        THEN [value |-> f.val, error |-> Null]
        ELSE [value |-> Null, error |-> Str("SyntaxError")]

\* record.get(field): the field's value as the host hands it over
GetField(st, name, rec, field) == st[name].records[rec].data[field.v].val

-----------------------------------------------------------------------------
(* tryCatch and the operations the handler hands to it                     *)

\* what a call of a zero-argument operation does: it returns val or throws
\* val; of names the operation
Returned(of, v) == [of |-> of, threw |-> FALSE, val |-> v]

Threw(of, e) == [of |-> of, threw |-> TRUE, val |-> e]

\* tryCatch whose catch block throws the error on
tryCatchRethrow(f) ==
    IF f.threw
    THEN [threw |-> TRUE, pair |-> <<>>, invocations |-> 1]
    ELSE [threw |-> FALSE, pair |-> <<f.val, Null>>, invocations |-> 1]

\* try { return [fn(), null]; } catch (error) { return [null, error]; }
\* the operation is called once, inside the try block
tryCatch(f) ==
    IF f.threw
    THEN [threw |-> FALSE, pair |-> <<Null, f.val>>, invocations |-> 1]
    ELSE [threw |-> FALSE, pair |-> <<f.val, Null>>, invocations |-> 1]

\* () => e.app.findCachedCollectionByNameOrId(collectionName)
CollectionThunk(st, name, fault) ==
    IF fault \/ name \notin DOMAIN st
    THEN Threw("findCachedCollectionByNameOrId", Str("collection lookup failed"))
    ELSE Returned("findCachedCollectionByNameOrId", Obj(<< <<"name", Str(name)>> >>))

\* () => e.app.findFirstRecordByData(collection, key, value)
RecordThunk(st, name, key, value, fault) ==
    LET found == FindRecord(st, name, key, value, fault)
    IN  IF found.error # Null
        THEN Threw("findFirstRecordByData", found.error)
        ELSE Returned("findFirstRecordByData",
                      Obj(<< <<"collection", Str(name)>>,
                             <<"id", Str(st[name].records[found.value].id)>> >>))

\* () => JSON.parse(record.getString(field))
ParseThunk(st, name, rec, field) ==
    LET f == st[name].records[rec].data[field.v]
    IN  IF f.kind = "json"
        THEN Returned("JSON.parse", f.val)
        ELSE Threw("JSON.parse", Str("SyntaxError"))

-----------------------------------------------------------------------------
(* POST /api/collections/{collection}/auth-with-ip                         *)

\* a response: its class, its status, its message and, for a session, the
\* record the session is for
Response(kind, status, message, record) ==
    [kind |-> kind, status |-> status, message |-> message, record |-> record]

\* e.badRequestError(message, data)
BadRequest(message) == Response("validation", 400, message, "")

\* e.notFoundError(message, data)
NotFound(message) == Response("not_found", 404, message, "")

\* e.unauthorizedError(message, data)
Unauthorized(message) == Response("unauthorized", 401, message, "")

\* an exception that leaves the handler uncaught: the host answers it
Thrown == Response("thrown", 0, "", "")

NoResponse == Response("none", 0, "", "")

\* the loop that skips an entry that is no string and goes on
RECURSIVE ScanSkipNonString(_, _)
ScanSkipNonString(ips, requestIp) ==
    IF Len(ips) = 0 THEN "none"
    ELSE IF ~IsString(ips[1]) THEN ScanSkipNonString(Tail(ips), requestIp)
    ELSE IF Includes(ips[1].v, "/") /\ ipInCidr(requestIp, ips[1].v) THEN "match"
    ELSE IF ips[1].v = requestIp THEN "match"
    ELSE ScanSkipNonString(Tail(ips), requestIp)

\* the loop over the allow-list: "match" at the first entry that matches,
\* "invalid" at a non-string entry reached before any match, else "none"
RECURSIVE Scan(_, _)
Scan(ips, requestIp) ==
    IF Len(ips) = 0 THEN "none"
    ELSE IF ~IsString(ips[1]) THEN "invalid"
    ELSE IF Includes(ips[1].v, "/") /\ ipInCidr(requestIp, ips[1].v) THEN "match"
    ELSE IF ips[1].v = requestIp THEN "match"
    ELSE Scan(Tail(ips), requestIp)

\* the same loop without the type check (main.pb.js): ip.includes on an
\* entry that is no string throws
RECURSIVE ScanUnchecked(_, _)
ScanUnchecked(ips, requestIp) ==
    IF Len(ips) = 0 THEN "none"
    ELSE IF ~IsString(ips[1]) THEN "throws"
    ELSE IF Includes(ips[1].v, "/") /\ ipInCidr(requestIp, ips[1].v) THEN "match"
    ELSE IF ips[1].v = requestIp THEN "match"
    ELSE ScanUnchecked(Tail(ips), requestIp)

\* issuance that hands out again the session an earlier request got for the
\* same record
IssueCached(st, name, rec, fault, cs) ==
    IF \E i \in 1..Len(issued) :
          issued[i] = [collection |-> name, record |-> st[name].records[rec].id]
    THEN [resp |-> Response("success", 200, "", st[name].records[rec].id),
          calls |-> cs, session |-> <<>>]
    ELSE IF fault
    THEN [resp |-> Thrown, calls |-> Append(cs, "recordAuthResponse"),
          session |-> <<>>]
    ELSE [resp |-> Response("success", 200, "", st[name].records[rec].id),
          calls |-> Append(cs, "recordAuthResponse"),
          session |-> <<[collection |-> name, record |-> st[name].records[rec].id]>>]

\* $apis.recordAuthResponse(e, record, "", meta): a new session for the
\* record, or an exception when issuance fails
Issue(st, name, rec, fault, cs) ==
    IF fault
    THEN [resp |-> Thrown, calls |-> Append(cs, "recordAuthResponse"),
          session |-> <<>>]
    ELSE [resp |-> Response("success", 200, "", st[name].records[rec].id),
          calls |-> Append(cs, "recordAuthResponse"),
          session |-> <<[collection |-> name, record |-> st[name].records[rec].id]>>]

Reply(r, cs) == [resp |-> r, calls |-> cs, session |-> <<>>]

\* the handler of utils.js; body is [identity, identityField, ipsField],
\* faults the set of collaborators that fail during this request
AuthWithIpUtils(st, body, collectionName, requestIp, faults) ==
    LET identity      == body.identity
        identityField == OrAssign(body.identityField, Str("email"))
        ipsField      == OrAssign(body.ipsField, Str("ips"))
        c1            == <<"findCachedCollectionByNameOrId">>
        c2            == Append(c1, "findFirstRecordByData")
        c3            == c2 \o <<"realIP", "getString">>
    IN  IF ~Truthy(identity) \/ ~IsString(identity)
        THEN Reply(BadRequest("Missing identity field."), <<>>)
        ELSE IF ~IsString(identityField)
        THEN Reply(BadRequest("Invalid identityField field."), <<>>)
        ELSE IF ~IsString(ipsField)
        THEN Reply(BadRequest("Invalid ipsField field."), <<>>)
        ELSE
        LET col == FindCollection(st, collectionName, "collection" \in faults)
        IN  IF col.error # Null \/ ~IsAuth(st, col.value.name)
            THEN Reply(NotFound("Missing or invalid auth collection context."), c1)
            ELSE IF ~HasField(st, collectionName, identityField)
            THEN Reply(BadRequest("The collection does not have the identityField."), c1)
            ELSE IF ~HasField(st, collectionName, ipsField)
            THEN Reply(BadRequest("The collection does not have the ipsField."), c1)
            ELSE
            LET rec == FindRecord(st, collectionName, identityField, identity,
                                  "record" \in faults)
            IN  IF rec.error # Null THEN Reply(Unauthorized("Invalid identity."), c2)
                ELSE
                LET ips == ParseField(st, collectionName, rec.value, ipsField)
                    scan == Scan(ips.value.v, requestIp)
                IN  IF ips.error # Null \/ ~IsArray(ips.value)
                    THEN Reply(Unauthorized("Invalid IP list format."), c3)
                    ELSE IF scan = "invalid"
                    THEN Reply(Unauthorized("Invalid IP address on the record."), c3)
                    ELSE IF scan # "match"
                    THEN Reply(Unauthorized("Request IP not found in the record."), c3)
                    ELSE Issue(st, collectionName, rec.value, "issue" \in faults, c3)

\* the handler of main.pb.js: the allow-list is read with record.get and
\* its entries are not type-checked
AuthWithIpMainJs(st, body, collectionName, requestIp, faults) ==
    LET identity      == body.identity
        identityField == OrAssign(body.identityField, Str("email"))
        ipsField      == OrAssign(body.ipsField, Str("ips"))
        c1            == <<"findCachedCollectionByNameOrId">>
        c2            == Append(c1, "findFirstRecordByData")
        c3            == c2 \o <<"realIP", "get">>
    IN  IF ~Truthy(identity) \/ ~IsString(identity)
        THEN Reply(BadRequest("Missing identity field."), <<>>)
        ELSE IF ~IsString(identityField)
        THEN Reply(BadRequest("Invalid identityField field."), <<>>)
        ELSE IF ~IsString(ipsField)
        THEN Reply(BadRequest("Invalid ipsField field."), <<>>)
        ELSE
        LET col == FindCollection(st, collectionName, "collection" \in faults)
        IN  IF col.error # Null \/ ~IsAuth(st, col.value.name)
            THEN Reply(NotFound("Missing or invalid auth collection context."), c1)
            ELSE IF ~HasField(st, collectionName, identityField)
            THEN Reply(BadRequest("The collection does not have the identityField."), c1)
            ELSE IF ~HasField(st, collectionName, ipsField)
            THEN Reply(BadRequest("The collection does not have the ipsField."), c1)
            ELSE
            LET rec == FindRecord(st, collectionName, identityField, identity,
                                  "record" \in faults)
            IN  IF rec.error # Null THEN Reply(Unauthorized("Invalid identity."), c2)
                ELSE
                LET ips  == GetField(st, collectionName, rec.value, ipsField)
                    scan == ScanUnchecked(ips.v, requestIp)
                IN  IF ~Truthy(ips) \/ ~IsArray(ips)
                    THEN Reply(Unauthorized("Invalid IP address on the record."), c3)
                    ELSE IF scan = "throws" THEN Reply(Thrown, c3)
                    ELSE IF scan # "match"
                    THEN Reply(Unauthorized("IP address not found in the record."), c3)
                    ELSE Issue(st, collectionName, rec.value, "issue" \in faults, c3)

-----------------------------------------------------------------------------
(* The requests and the stores of the model                                *)

MaxEntries == 2

Quad(a, b, c, d) ==
    Join(<<NumToStr(a), NumToStr(b), NumToStr(c), NumToStr(d)>>, <<".">>)

Cidr(ip, prefix) == ip \o <<"/">> \o prefix

\* an IPv6 caller, as e.realIP() reports it
Loopback6 == <<":", ":", "1">>

\* addresses e.realIP() reports
RequestIps == {Quad(10, 0, 0, 1), Quad(192, 168, 1, 42), Loopback6}

\* entries a record's allow-list holds
Entries ==
    {Str(Quad(10, 0, 0, 1)),
     Str(Cidr(Quad(192, 168, 1, 0), <<"2", "4">>)),
     Str(Cidr(Quad(0, 0, 0, 0), <<"8">>)),
     Number(5)}

RECURSIVE SeqsUpTo(_, _)
SeqsUpTo(S, n) ==
    IF n = 0 THEN {<<>>}
    ELSE LET shorter == SeqsUpTo(S, n - 1)
         IN  shorter \cup {Append(q, e) : q \in shorter, e \in S}

Field(kind, val) == [kind |-> kind, val |-> val]

\* values of the allow-list field of a record
AllowLists ==
    {Field("json", Arr(l)) : l \in SeqsUpTo(Entries, MaxEntries)}
        \cup {Field("json", Obj(<<>>)), Field("empty", Null)}

Record(id, email, ips) ==
    [id |-> id, data |-> [f \in {"id", "email", "ips"} |->
        CASE f = "id" -> Field("text", Str(id))
          [] f = "email" -> Field("text", Str(email))
          [] OTHER -> ips]]

OpenList ==
    Field("json", Arr(<<Str(Quad(10, 0, 0, 1)), Str(Quad(192, 168, 1, 42)),
                        Str(Loopback6)>>))

\* an auth collection "users" with two records and a base collection
\* "posts" with the same fields; the second user admits every caller of the
\* model, the first user's allow-list is chosen
Store(ips) ==
    [c \in CollectionNames |->
        [auth    |-> c = "users",
         fields  |-> {"id", "email", "ips"},
         records |-> <<Record("r1", "a@x", ips), Record("r2", "b@x", OpenList)>>]]

Stores == {Store(ips) : ips \in AllowLists}

Identities == {Undefined, Number(5), Str("a@x"), Str("zz")}

IdentityFields == {Undefined, Null, Number(0), Number(7), Str("nofield")}

IpsFields == {Undefined, Bool(FALSE), Bool(TRUE), Str("nofield"), Str("email")}

PathNames == CollectionNames \cup {"nope"}

\* at most one collaborator fails during a request
Faults == {{}, {"collection"}, {"record"}, {"issue"}}

NoRequest == [route |-> "none"]

NoArg == [ip |-> <<>>, cidr |-> <<>>, thunk |-> Returned("none", Undefined)]

NoOut ==
    [int |-> NaN, ip |-> <<>>, range |-> <<>>, member |-> FALSE,
     pair |-> <<>>, threw |-> FALSE, invocations |-> 0]

-----------------------------------------------------------------------------
(* POST /api/logs                                                          *)

Levels == <<"debug", "info", "warn", "error">>

\* ["debug", "info", "warn", "error"].indexOf(level) === -1
LevelUnknown(level) ==
    ~(IsString(level) /\ \E i \in 1..Len(Levels) : Levels[i] = level.v)

\* Object.keys(data)
Keys(data) == [i \in 1..Len(data.v) |-> data.v[i][1]]

\* Object.entries(data): one array [key, value] per own entry
ObjectEntries(data) ==
    [i \in 1..Len(data.v) |-> Arr(<<Str(data.v[i][1]), data.v[i][2]>>)]

\* array.flat(Infinity), which would take the values apart as well
RECURSIVE FlatDeep(_)
FlatDeep(items) ==
    IF Len(items) = 0 THEN <<>>
    ELSE (IF IsArray(items[1]) THEN FlatDeep(items[1].v) ELSE <<items[1]>>)
             \o FlatDeep(Tail(items))

\* array.flat(): the elements that are arrays are replaced by their items,
\* one level deep
RECURSIVE Flat(_)
Flat(items) ==
    IF Len(items) = 0 THEN <<>>
    ELSE (IF IsArray(items[1]) THEN items[1].v ELSE <<items[1]>>)
             \o Flat(Tail(items))

\* the switch over json.level: the sink the record goes to
Sink(level) ==
    CASE level.v = "debug" -> "debug"
      [] level.v = "info"  -> "info"
      [] level.v = "warn"  -> "warn"
      [] level.v = "error" -> "error"
      [] OTHER -> "none"

LogReply(r, records) == [resp |-> r, emit |-> records]

\* the handler body with the message checked before the level
LogHandlerMessageFirst(body) ==
    IF ~Truthy(body.message) \/ ~IsString(body.message)
    THEN LogReply(BadRequest("Log message must be a string."), <<>>)
    ELSE IF LevelUnknown(body.level)
    THEN LogReply(BadRequest("Log level must be one of: debug, info, warn, error."), <<>>)
    ELSE IF ~Truthy(body.data) \/ TypeOf(body.data) # "object" \/ IsArray(body.data)
    THEN LogReply(BadRequest("Log data must be an object."), <<>>)
    ELSE IF Len(Keys(body.data)) = 0
    THEN LogReply(BadRequest("Log data must not be empty."), <<>>)
    ELSE LogReply(Response("no_content", 201, "", ""),
                  <<[sink |-> Sink(body.level), message |-> body.message.v,
                     args |-> Flat(ObjectEntries(body.data))]>>)

\* the handler body, in the order of its checks
LogHandler(body) ==
    IF LevelUnknown(body.level)
    THEN LogReply(BadRequest("Log level must be one of: debug, info, warn, error."), <<>>)
    ELSE IF ~Truthy(body.message) \/ ~IsString(body.message)
    THEN LogReply(BadRequest("Log message must be a string."), <<>>)
    ELSE IF ~Truthy(body.data) \/ TypeOf(body.data) # "object" \/ IsArray(body.data)
    THEN LogReply(BadRequest("Log data must be an object."), <<>>)
    ELSE IF Len(Keys(body.data)) = 0
    THEN LogReply(BadRequest("Log data must not be empty."), <<>>)
    ELSE IF Sink(body.level) = "none"
    THEN LogReply(BadRequest("Unknown log level."), <<>>)
    ELSE LogReply(Response("no_content", 201, "", ""),
                  <<[sink |-> Sink(body.level), message |-> body.message.v,
                     args |-> Flat(ObjectEntries(body.data))]>>)

\* the route registered without its authorization gate
LogRouteOpen(caller, body) == LogHandler(body)

\* $apis.requireSuperuserAuth(): the handler body runs for a superuser only
LogRoute(caller, body) ==
    IF caller = "anonymous" THEN LogReply(Response("rejected", 401, "", ""), <<>>)
    ELSE IF caller # "superuser" THEN LogReply(Response("rejected", 403, "", ""), <<>>)
    ELSE LogHandler(body)

-----------------------------------------------------------------------------
(* The handlers as actions: a behaviour follows one request after another; *)
(* Done ends the handling of a request                                     *)

MaxIssued == 2

AuthRequest(file, body, name, ip, faults) ==
    [route |-> "auth-with-ip", file |-> file, body |-> body, collection |-> name,
     ip |-> ip, faults |-> faults]

Serve(r, result) ==
    /\ req' = r
    /\ resp' = result.resp
    /\ calls' = result.calls
    /\ issued' = issued \o result.session
    /\ UNCHANGED <<store, emitted, fn, arg, out>>

AuthWithIp ==
    /\ req = NoRequest
    /\ Len(issued) < MaxIssued
    /\ \E identity \in Identities, identityField \in IdentityFields,
          ipsField \in IpsFields, name \in PathNames, ip \in RequestIps,
          faults \in Faults :
          LET body == [identity |-> identity, identityField |-> identityField,
                       ipsField |-> ipsField]
          IN  Serve(AuthRequest("utils.js", body, name, ip, faults),
                    AuthWithIpUtils(store, body, name, ip, faults))

AuthWithIpMain ==
    /\ req = NoRequest
    /\ Len(issued) < MaxIssued
    /\ \E identity \in Identities, identityField \in IdentityFields,
          ipsField \in IpsFields, name \in PathNames, ip \in RequestIps,
          faults \in Faults :
          LET body == [identity |-> identity, identityField |-> identityField,
                       ipsField |-> ipsField]
          IN  Serve(AuthRequest("main.pb.js", body, name, ip, faults),
                    AuthWithIpMainJs(store, body, name, ip, faults))

Done ==
    /\ req # NoRequest
    /\ req' = NoRequest
    /\ resp' = NoResponse
    /\ calls' = <<>>
    /\ UNCHANGED <<store, issued, emitted, fn, arg, out>>

-----------------------------------------------------------------------------
(* The log requests of the model                                           *)

MaxEmitted == 2

LogLevels ==
    {Str("debug"), Str("info"), Str("warn"), Str("error"), Str("trace"),
     Undefined, Number(1)}

LogMessages == {Str("m"), Str(""), Undefined, Number(7)}

LogData ==
    {Undefined, Null, Str("text"), Arr(<<Number(1)>>), Obj(<<>>),
     Obj(<< <<"a", Number(1)>> >>),
     Obj(<< <<"a", Number(1)>>, <<"b", Number(2)>> >>),
     Obj(<< <<"list", Arr(<<Number(1), Number(2)>>)>>,
            <<"nested", Obj(<< <<"k", Null>> >>)>> >>)}

Callers == {"superuser", "user", "anonymous"}

LogRequest(caller, body) == [route |-> "logs", caller |-> caller, body |-> body]

Log ==
    /\ req = NoRequest
    /\ Len(emitted) < MaxEmitted
    /\ \E caller \in Callers, level \in LogLevels, message \in LogMessages,
          data \in LogData :
          LET body   == [level |-> level, message |-> message, data |-> data]
              result == LogRoute(caller, body)
          IN  /\ req' = LogRequest(caller, body)
              /\ resp' = result.resp
              /\ calls' = [i \in 1..Len(result.emit) |-> result.emit[i].sink]
              /\ emitted' = emitted \o result.emit
              /\ UNCHANGED <<store, issued, fn, arg, out>>

-----------------------------------------------------------------------------
(* The CIDR functions applied to the inputs of the model                   *)

NumOctets == 4

OctetChoices == <<0, 255, 128, 1, 127, 192, 10, 168, 254, 9>>

Octets ==
    {OctetChoices[i] : i \in 1..(IF NumOctets < Len(OctetChoices)
                                 THEN NumOctets ELSE Len(OctetChoices))}

Quads == {Quad(a, b, c, d) : a, b, c, d \in Octets}

\* strings that are no canonical dotted quad
OddIps ==
    {Loopback6, <<"1", ".", "2", ".", "3">>,
     <<"0", "1", ".", "2", ".", "3", ".", "4">>,
     <<"2", "5", "6", ".", "0", ".", "0", ".", "1">>,
     <<"1", ".", "2", ".", "3", ".", "4", ".", "5">>,
     <<"1", ".", "x", ".", "3", ".", "4">>}

IpInputs == Quads \cup OddIps

CidrBases ==
    {Quad(192, 168, 1, 0), Quad(10, 0, 0, 5), Quad(255, 255, 255, 255),
     Quad(128, 0, 0, 1), Quad(0, 0, 0, 0)}

Prefixes == {NumToStr(n) : n \in 0..32}

OddPrefixes == {<<>>, <<"-", "1">>, <<"3", "3">>, <<"x">>}

CidrInputs == {Cidr(b, q) : b \in CidrBases, q \in Prefixes \cup OddPrefixes}

MemberIps ==
    {Quad(192, 168, 1, 42), Quad(192, 168, 2, 1), Quad(10, 0, 0, 5),
     Quad(0, 0, 0, 0), Quad(255, 255, 255, 255), Quad(128, 0, 0, 0), Loopback6}

CallIpToInt ==
    /\ fn = "none"
    /\ \E ip \in IpInputs :
          /\ arg' = [NoArg EXCEPT !.ip = ip]
          /\ out' = [NoOut EXCEPT !.int = ipToInt(ip)]
    /\ fn' = "ipToInt"
    /\ UNCHANGED <<store, req, resp, calls, issued, emitted>>

\* intToIp applied to the number ipToInt returned
CallIntToIp ==
    /\ fn = "ipToInt"
    /\ fn' = "intToIp"
    /\ out' = [out EXCEPT !.ip = intToIp(out.int)]
    /\ UNCHANGED <<store, req, resp, calls, issued, emitted, arg>>

CallCidrToRange ==
    /\ fn = "none"
    /\ \E cidr \in CidrInputs :
          /\ arg' = [NoArg EXCEPT !.cidr = cidr]
          /\ out' = [NoOut EXCEPT !.range = cidrToRange(cidr)]
    /\ fn' = "cidrToRange"
    /\ UNCHANGED <<store, req, resp, calls, issued, emitted>>

\* the addresses tried against a block: the fixed ones and the two ends of
\* the block's range
MemberInputs(cidr) == MemberIps \cup {cidrToRange(cidr)[1], cidrToRange(cidr)[2]}

CallIpInCidr ==
    /\ fn = "none"
    /\ \E cidr \in CidrInputs : \E ip \in MemberInputs(cidr) :
          /\ arg' = [NoArg EXCEPT !.ip = ip, !.cidr = cidr]
          /\ out' = [NoOut EXCEPT !.member = ipInCidr(ip, cidr)]
    /\ fn' = "ipInCidr"
    /\ UNCHANGED <<store, req, resp, calls, issued, emitted>>

-----------------------------------------------------------------------------
(* Specifications                                                          *)

Idle ==
    /\ req = NoRequest
    /\ resp = NoResponse
    /\ calls = <<>>
    /\ issued = <<>>
    /\ emitted = <<>>
    /\ fn = "none"
    /\ arg = NoArg
    /\ out = NoOut

\* the auth-with-ip handlers over every store of the model
Init == store \in Stores /\ Idle

Next == AuthWithIp \/ AuthWithIpMain \/ Done

Spec == Init /\ [][Next]_vars

\* the log handler
InitLog == store = Store(OpenList) /\ Idle

NextLog == Log \/ Done

SpecLog == InitLog /\ [][NextLog]_vars

\* auth-with-ip and log requests in any order, over one store and fewer
\* request shapes
MixedIdentities == {Str("a@x"), Str("b@x"), Str("zz")}

MixedIpsFields == {Undefined, Str("nofield")}

MixedFaults == {{}, {"issue"}}

MixedAuth ==
    /\ req = NoRequest
    /\ Len(issued) < MaxIssued
    /\ \E identity \in MixedIdentities, ipsField \in MixedIpsFields,
          name \in CollectionNames, ip \in RequestIps, faults \in MixedFaults :
          LET body == [identity |-> identity, identityField |-> Undefined,
                       ipsField |-> ipsField]
          IN  Serve(AuthRequest("utils.js", body, name, ip, faults),
                    AuthWithIpUtils(store, body, name, ip, faults))

MixedAuthMain ==
    /\ req = NoRequest
    /\ Len(issued) < MaxIssued
    /\ \E identity \in MixedIdentities, ipsField \in MixedIpsFields,
          name \in CollectionNames, ip \in RequestIps, faults \in MixedFaults :
          LET body == [identity |-> identity, identityField |-> Undefined,
                       ipsField |-> ipsField]
          IN  Serve(AuthRequest("main.pb.js", body, name, ip, faults),
                    AuthWithIpMainJs(store, body, name, ip, faults))

MixedLog ==
    /\ req = NoRequest
    /\ Len(emitted) < MaxEmitted
    /\ \E caller \in {"superuser", "anonymous"},
          level \in {Str("info"), Str("error"), Str("trace")},
          data \in {Obj(<<>>), Obj(<< <<"a", Number(1)>> >>)} :
          LET body   == [level |-> level, message |-> Str("m"), data |-> data]
              result == LogRoute(caller, body)
          IN  /\ req' = LogRequest(caller, body)
              /\ resp' = result.resp
              /\ calls' = [i \in 1..Len(result.emit) |-> result.emit[i].sink]
              /\ emitted' = emitted \o result.emit
              /\ UNCHANGED <<store, issued, fn, arg, out>>

InitMixed == store = Store(OpenList) /\ Idle

NextMixed == MixedAuth \/ MixedAuthMain \/ MixedLog \/ Done

SpecMixed == InitMixed /\ [][NextMixed]_vars

\* tryCatch applied to the operations the handler wraps, over every store
\* of the model, and to operations that return or throw a value without one
PlainThunks ==
    {Returned("plain", v) : v \in {Undefined, Null, Number(0), Bool(FALSE)}}
        \cup {Threw("plain", e) : e \in {Undefined, Null, Number(0), Str("Error")}}

Thunks(st) ==
    {CollectionThunk(st, name, fault) : name \in PathNames, fault \in BOOLEAN}
        \cup {RecordThunk(st, name, Str(key), value, fault) :
                 name \in CollectionNames, key \in {"email", "id"},
                 value \in {Str("a@x"), Str("r2"), Str("zz")}, fault \in BOOLEAN}
        \cup {ParseThunk(st, name, rec, Str(field)) :
                 name \in CollectionNames, rec \in 1..2, field \in {"ips", "email"}}
        \cup PlainThunks

CallTryCatch ==
    /\ fn = "none"
    /\ \E thunk \in Thunks(store) :
          LET result == tryCatch(thunk)
          IN  /\ arg' = [NoArg EXCEPT !.thunk = thunk]
              /\ out' = [NoOut EXCEPT !.pair = result.pair, !.threw = result.threw,
                                      !.invocations = result.invocations]
    /\ fn' = "tryCatch"
    /\ UNCHANGED <<store, req, resp, calls, issued, emitted>>

\* the next call
Return ==
    /\ fn = "tryCatch"
    /\ fn' = "none"
    /\ arg' = NoArg
    /\ out' = NoOut
    /\ UNCHANGED <<store, req, resp, calls, issued, emitted>>

InitTry == store \in Stores /\ Idle

NextTry == CallTryCatch \/ Return

SpecTry == InitTry /\ [][NextTry]_vars

\* the CIDR functions
InitCidr == store = Store(OpenList) /\ Idle

NextCidr == CallIpToInt \/ CallIntToIp \/ CallCidrToRange \/ CallIpInCidr

SpecCidr == InitCidr /\ [][NextCidr]_vars

-----------------------------------------------------------------------------
(* What the claims speak of, stated from the request and the store alone   *)

IsAuthRequest == req.route = "auth-with-ip"

IsUtilsRequest == IsAuthRequest /\ req.file = "utils.js"

Invoked(c) == \E i \in 1..Len(calls) : calls[i] = c

\* an optional body field: its default when it is absent from the body
OrDefault(x, d) == IF x.t = "undefined" THEN d ELSE x

GivenIdentityField == OrDefault(req.body.identityField, Str("email"))

GivenIpsField == OrDefault(req.body.ipsField, Str("ips"))

\* the field names the handler works with after its own defaulting
UsedIdentityField == OrAssign(req.body.identityField, Str("email"))

UsedIpsField == OrAssign(req.body.ipsField, Str("ips"))

IdentityValid == req.body.identity.t = "string" /\ req.body.identity.v # ""

CollectionResolved ==
    /\ req.collection \in DOMAIN store
    /\ "collection" \notin req.faults
    /\ store[req.collection].auth

Declared(field) ==
    field.t = "string" /\ field.v \in store[req.collection].fields

\* the records of the named collection whose field holds the identity
Matching(field) ==
    {i \in 1..Len(store[req.collection].records) :
        LET f == store[req.collection].records[i].data[field.v]
        IN  f.kind = "text" /\ f.val.v = req.body.identity.v}

FoundRecord(field) == CHOOSE i \in Matching(field) : \A j \in Matching(field) : i <= j

AllowListField(field, ipsField) ==
    store[req.collection].records[FoundRecord(field)].data[ipsField.v]

\* a canonical dotted quad: four decimal octets 0..255 without leading zeros
OctetNumeral == [n \in 0..255 |-> NumToStr(n)]

IsQuad(s) ==
    LET parts == Split(s, ".")
    IN  /\ Len(parts) = 4
        /\ \A i \in 1..4 : \E n \in 0..255 : OctetNumeral[n] = parts[i]

OctetOf(s, i) ==
    LET part == Split(s, ".")[i]
    IN  CHOOSE n \in 0..255 : OctetNumeral[n] = part

\* the 32 bits of a dotted quad, most significant first
BitOf(s, k) == (OctetOf(s, ((k - 1) \div 8) + 1) \div 2^(7 - ((k - 1) % 8))) % 2

\* a CIDR block a.b.c.d/p with p in 0..32
IsBlock(s) ==
    LET parts == Split(s, "/")
    IN  /\ Len(parts) = 2
        /\ IsQuad(parts[1])
        /\ \E p \in 0..32 : OctetNumeral[p] = parts[2]

PrefixOf(s) ==
    LET part == Split(s, "/")[2]
    IN  CHOOSE p \in 0..32 : OctetNumeral[p] = part

\* the address lies inside the block: both agree on the block's prefix bits
Inside(ip, block) ==
    /\ IsQuad(ip)
    /\ IsBlock(block)
    /\ \A k \in 1..PrefixOf(block) : BitOf(ip, k) = BitOf(Split(block, "/")[1], k)

\* the caller's address equals an entry or lies inside an entry that is a block
Admitted(list) ==
    \E i \in 1..Len(list) :
        /\ list[i].t = "string"
        /\ list[i].v = req.ip \/ Inside(req.ip, list[i].v)

\* the checks of the handler, as it evaluates them on this request
Step1Fails == ~IdentityValid

Step2Fails == UsedIdentityField.t # "string" \/ UsedIpsField.t # "string"

Step3Fails == ~CollectionResolved

Step4Fails == ~Declared(UsedIdentityField) \/ ~Declared(UsedIpsField)

Step5Fails == Matching(UsedIdentityField) = {} \/ "record" \in req.faults

UsedAllowList == AllowListField(UsedIdentityField, UsedIpsField)

Step6Fails == UsedAllowList.kind # "json" \/ UsedAllowList.val.t # "array"

\* the entry is a string the handler's test accepts for the caller
Hit(e) ==
    /\ e.t = "string"
    /\ e.v = req.ip \/ (Includes(e.v, "/") /\ ipInCidr(req.ip, e.v))

\* an entry is accepted and every entry before it is a string
Step7Fails ==
    ~\E i \in 1..Len(UsedAllowList.val.v) :
        /\ Hit(UsedAllowList.val.v[i])
        /\ \A j \in 1..(i - 1) : UsedAllowList.val.v[j].t = "string"

\* the first check that fails, 0 when none does
FirstFailure ==
    CASE Step1Fails -> 1
      [] ~Step1Fails /\ Step2Fails -> 2
      [] ~Step1Fails /\ ~Step2Fails /\ Step3Fails -> 3
      [] ~Step1Fails /\ ~Step2Fails /\ ~Step3Fails /\ Step4Fails -> 4
      [] OTHER -> IF Step5Fails THEN 5
                  ELSE IF Step6Fails THEN 6
                  ELSE IF Step7Fails THEN 7
                  ELSE 0

ClassOf(step) ==
    CASE step \in {1, 2, 4} -> "validation"
      [] step = 3 -> "not_found"
      [] OTHER -> "unauthorized"

\* the checks as the contract states them: a field that is present must be a
\* string, and matching is equality or lying inside a CIDR block
StatedStep2Fails == GivenIdentityField.t # "string" \/ GivenIpsField.t # "string"

StatedStep7Fails == ~Admitted(UsedAllowList.val.v)

StatedFailure ==
    IF Step1Fails THEN 1
    ELSE IF StatedStep2Fails THEN 2
    ELSE IF FirstFailure \in 1..6 THEN FirstFailure
    ELSE IF StatedStep7Fails THEN 7
    ELSE 0

\* C1: a session is issued (and issuance is invoked at all) only if the
\* collection exists and is auth-capable, identityField and ipsField are
\* declared fields, a record with the identity was found, its allow-list is
\* a sequence and the caller's address equals an entry or lies inside an
\* entry that is a CIDR block; the session is for exactly that record
C1_SessionOnlyIfAllChecksHeld ==
    (IsAuthRequest /\ (resp.kind = "success" \/ Invoked("recordAuthResponse")))
        => /\ CollectionResolved
           /\ Declared(UsedIdentityField)
           /\ Declared(UsedIpsField)
           /\ Matching(UsedIdentityField) # {}
           /\ "record" \notin req.faults
           /\ UsedAllowList.kind = "json"
           /\ UsedAllowList.val.t = "array"
           /\ Admitted(UsedAllowList.val.v)
           /\ resp.kind = "success" =>
                 resp.record = store[req.collection].records[FoundRecord(UsedIdentityField)].id

\* with the checks as the handler evaluates them, issuance is invoked only
\* when none has failed, and the session is for the record that was found
SessionOnlyAfterHandlerChecks ==
    (IsAuthRequest /\ (resp.kind = "success" \/ Invoked("recordAuthResponse")))
        => /\ IsUtilsRequest => FirstFailure = 0
           /\ CollectionResolved
           /\ Matching(UsedIdentityField) # {}
           /\ \E i \in 1..Len(UsedAllowList.val.v) : Hit(UsedAllowList.val.v[i])
           /\ resp.kind = "success" =>
                 resp.record = store[req.collection].records[FoundRecord(UsedIdentityField)].id

\* C2: the response class is that of the first check that fails, in the
\* order identity, field types, collection, declared fields, record lookup,
\* allow-list decode, entry matching; a missing and a non-auth collection
\* get the same not-found response; no collaborator of a later step is
\* invoked once a step has failed
C2_FirstFailingStepDecides ==
    IsUtilsRequest =>
        /\ StatedFailure # 0 => resp.kind = ClassOf(StatedFailure)
        /\ StatedFailure = 3 =>
              resp = NotFound("Missing or invalid auth collection context.")
        /\ StatedFailure \in {1, 2} => calls = <<>>
        /\ StatedFailure \in 1..4 => ~Invoked("findFirstRecordByData")
        /\ StatedFailure # 0 => ~Invoked("recordAuthResponse")

\* with the checks as the handler evaluates them, the order, the response
\* classes and the short-circuit are as stated
HandlerStepsDecide ==
    IsUtilsRequest =>
        /\ FirstFailure # 0 => resp.kind = ClassOf(FirstFailure)
        /\ FirstFailure = 3 =>
              resp = NotFound("Missing or invalid auth collection context.")
        /\ FirstFailure \in {1, 2} => calls = <<>>
        /\ FirstFailure \in 1..4 => ~Invoked("findFirstRecordByData")
        /\ FirstFailure # 0 => ~Invoked("recordAuthResponse")

\* C3: an identityField or ipsField that is present in the body and is not
\* a string (0, false and null included) gets a validation error
C3_NonStringFieldIsRejected ==
    (/\ IsUtilsRequest
     /\ \/ req.body.identityField.t \notin {"undefined", "string"}
        \/ req.body.ipsField.t \notin {"undefined", "string"})
        => resp.kind = "validation"

\* the request reached the loop over the allow-list
ReachedScan == IsUtilsRequest /\ FirstFailure \notin 1..6

C5_IssuanceFailureIsInternalError ==
    IsUtilsRequest =>
        /\ resp.kind # "thrown"
        /\ (Invoked("recordAuthResponse") /\ "issue" \in req.faults)
              => resp.kind = "internal" /\ resp.status = 500

\* C6: once input validation, collection resolution and the declared-field
\* check have passed, no record with the identity, a failing lookup, an
\* allow-list that is no sequence and a caller's address that equals no entry
\* and lies inside no CIDR entry all get the unauthorized error, status 401
C6_IdentityAndAddressFailuresAreUnauthorized ==
    (/\ IsUtilsRequest
     /\ FirstFailure \notin 1..4
     /\ \/ Step5Fails
        \/ Step6Fails
        \/ ~Admitted(UsedAllowList.val.v))
        => resp.kind = "unauthorized" /\ resp.status = 401

\* with matching as the handler tests it, every such failure is answered
\* with the unauthorized error
HandlerFailuresAreUnauthorized ==
    (/\ IsUtilsRequest
     /\ FirstFailure \notin 1..4
     /\ \/ Step5Fails
        \/ Step6Fails
        \/ \A i \in 1..Len(UsedAllowList.val.v) : ~Hit(UsedAllowList.val.v[i]))
        => resp.kind = "unauthorized" /\ resp.status = 401

-----------------------------------------------------------------------------
(* The log handler                                                         *)

IsLogRequest(r) == r.route = "logs"

LevelOk(r) ==
    r.body.level.t = "string" /\ r.body.level.v \in {"debug", "info", "warn", "error"}

MessageOk(r) == r.body.message.t = "string" /\ r.body.message.v # ""

DataIsObject(r) == r.body.data.t = "object"

DataHasKey(r) == Len(r.body.data.v) >= 1

LogValid(r) == LevelOk(r) /\ MessageOk(r) /\ DataIsObject(r) /\ DataHasKey(r)

\* the message of the first check that fails
FirstLogError(r) ==
    IF ~LevelOk(r) THEN "Log level must be one of: debug, info, warn, error."
    ELSE IF ~MessageOk(r) THEN "Log message must be a string."
    ELSE IF ~DataIsObject(r) THEN "Log data must be an object."
    ELSE "Log data must not be empty."

\* C7: the handler checks the level, the message, that data is an object
\* and that data has a key, in this order; a request that fails a check gets
\* the validation error of the first check it fails
C7_FirstFailingLogCheckIsReported ==
    (IsLogRequest(req) /\ req.caller = "superuser")
        => IF LogValid(req) THEN resp.kind # "validation"
           ELSE resp = BadRequest(FirstLogError(req))

\* every check fails and the level is the one reported
C7_Witness ==
    /\ IsLogRequest(req)
    /\ req.caller = "superuser"
    /\ ~LevelOk(req) /\ ~MessageOk(req) /\ ~DataIsObject(req)
    /\ resp = BadRequest("Log level must be one of: debug, info, warn, error.")

\* C8: a request that passes the four checks emits exactly one record, to
\* the sink named by its level, with its message and the keys of data each
\* followed by its value (an array or object value as one element), and is
\* answered 201 without a body
C8_ValidLogEmitsOneRecord ==
    [][(IsLogRequest(req') /\ ~IsLogRequest(req)
            /\ req'.caller = "superuser" /\ LogValid(req'))
        => /\ resp' = Response("no_content", 201, "", "")
           /\ Len(emitted') = Len(emitted) + 1
           /\ SubSeq(emitted', 1, Len(emitted)) = emitted
           /\ LET rec  == emitted'[Len(emitted')]
                  data == req'.body.data.v
              IN  /\ rec.sink = req'.body.level.v
                  /\ rec.message = req'.body.message.v
                  /\ Len(rec.args) = 2 * Len(data)
                  /\ \A i \in 1..Len(data) :
                        /\ rec.args[2 * i - 1] = Str(data[i][1])
                        /\ rec.args[2 * i] = data[i][2]]_vars

\* a valid request whose data holds an array and an object was answered 201
\* and its record is the last one emitted
C8_Witness ==
    /\ IsLogRequest(req)
    /\ req.caller = "superuser"
    /\ LogValid(req)
    /\ \E i \in 1..Len(req.body.data.v) : req.body.data.v[i][2].t = "array"
    /\ resp.status = 201
    /\ Len(emitted) >= 1
    /\ Len(emitted[Len(emitted)].args) = 4

\* C9: a caller that is no superuser is rejected by the gate, whatever the
\* body; a request that fails a check is rejected; a rejected request leaves
\* the emitted records as they were
C9_RejectedLogEmitsNothing ==
    [][(IsLogRequest(req') /\ ~IsLogRequest(req))
        => /\ req'.caller # "superuser" => resp'.kind = "rejected"
           /\ ~LogValid(req') => resp'.kind \in {"rejected", "validation"}
           /\ resp'.kind \in {"rejected", "validation"} => emitted' = emitted]_vars

\* a rejected request after a record was emitted: the record is still the
\* only one
C9_Witness ==
    /\ IsLogRequest(req)
    /\ req.caller = "anonymous"
    /\ LogValid(req)
    /\ resp.kind = "rejected"
    /\ Len(emitted) = 1

-----------------------------------------------------------------------------
(* The CIDR functions                                                      *)

\* C10: for a canonical dotted quad a.b.c.d, ipToInt is the unsigned number
\* a * 2^24 + b * 2^16 + c * 2^8 + d, and intToIp of it is the quad again
C10_RoundTrip ==
    (fn \in {"ipToInt", "intToIp"} /\ IsQuad(arg.ip))
        => /\ out.int = [nan |-> FALSE,
                         hi |-> OctetOf(arg.ip, 1) * 256 + OctetOf(arg.ip, 2),
                         lo |-> OctetOf(arg.ip, 3) * 256 + OctetOf(arg.ip, 4)]
           /\ fn = "intToIp" => out.ip = arg.ip

\* an address whose first octet is 128 or more went through both functions
C10_Witness ==
    /\ fn = "intToIp"
    /\ IsQuad(arg.ip)
    /\ OctetOf(arg.ip, 1) >= 128
    /\ out.int.hi >= 2^15
    /\ out.ip = arg.ip

\* the unsigned order of two dotted quads, octet by octet
QuadLeq(s, t) ==
    \/ s = t
    \/ \E i \in 1..4 :
          /\ OctetOf(s, i) < OctetOf(t, i)
          /\ \A j \in 1..(i - 1) : OctetOf(s, j) = OctetOf(t, j)

BaseOf(block) == Split(block, "/")[1]

\* C11: for a well-formed block a.b.c.d/p, p in 0..32, cidrToRange returns
\* the address with its 32-p host bits zeroed and the address with them set;
\* /0 is (0.0.0.0, 255.255.255.255), /32 is the address twice, and the first
\* is never above the second as an unsigned number
C11_RangeIsNetworkAndBroadcast ==
    (fn = "cidrToRange" /\ IsBlock(arg.cidr))
        => LET network   == out.range[1]
               broadcast == out.range[2]
               base      == BaseOf(arg.cidr)
               p         == PrefixOf(arg.cidr)
           IN  /\ IsQuad(network) /\ IsQuad(broadcast)
               /\ \A k \in 1..32 :
                     /\ BitOf(network, k) = IF k <= p THEN BitOf(base, k) ELSE 0
                     /\ BitOf(broadcast, k) = IF k <= p THEN BitOf(base, k) ELSE 1
               /\ p = 0 => /\ network = Quad(0, 0, 0, 0)
                           /\ broadcast = Quad(255, 255, 255, 255)
               /\ p = 32 => network = base /\ broadcast = base
               /\ QuadLeq(network, broadcast)
               /\ Leq(ipToInt(network), ipToInt(broadcast))

\* a block whose address has the top bit set and whose mask is neither empty
\* nor full: 128.0.0.1/9 is (128.0.0.0, 128.127.255.255)
C11_Witness ==
    /\ fn = "cidrToRange"
    /\ arg.cidr = Cidr(Quad(128, 0, 0, 1), NumToStr(9))
    /\ out.range = <<Quad(128, 0, 0, 0), Quad(128, 127, 255, 255)>>

\* C12: for a well-formed address and a well-formed block base/p, ipInCidr
\* is true exactly when the address lies in the inclusive unsigned range
\* from the block's network to its broadcast address, that is exactly when
\* the address and the base agree on their top p bits; both ends of the
\* range are members
C12_MemberIffInRange ==
    (fn = "ipInCidr" /\ IsQuad(arg.ip) /\ IsBlock(arg.cidr))
        => LET network   == cidrToRange(arg.cidr)[1]
               broadcast == cidrToRange(arg.cidr)[2]
           IN  /\ out.member = (QuadLeq(network, arg.ip) /\ QuadLeq(arg.ip, broadcast))
               /\ out.member = Inside(arg.ip, arg.cidr)
               /\ arg.ip \in {network, broadcast} => out.member

\* the broadcast address of 192.168.1.0/24 is a member, and an address just
\* above it was tried as well
C12_Witness ==
    /\ fn = "ipInCidr"
    /\ arg.cidr = Cidr(Quad(192, 168, 1, 0), NumToStr(24))
    /\ arg.ip = Quad(192, 168, 1, 255)
    /\ out.member

-----------------------------------------------------------------------------
(* Requests of both routes in any order                                    *)

\* the collaborator calls that read the store or the request, the issuance
\* of a session and the logging sinks; none of them writes the store
NonWritingCalls ==
    {"findCachedCollectionByNameOrId", "findFirstRecordByData", "realIP",
     "getString", "get", "recordAuthResponse", "debug", "info", "warn", "error"}

Count(cs, c) == Cardinality({i \in 1..Len(cs) : cs[i] = c})

\* C13: whatever the order of auth-with-ip and log requests, no request
\* changes a collection or a record of the store and no handler invokes a
\* writing operation; every successful auth-with-ip request invokes token
\* issuance exactly once and adds one session of its own, also when an equal
\* request from the same address was served before; no other request adds a
\* session
C13_StoreUnchangedAndOneIssuancePerSuccess ==
    [][/\ store' = store
       /\ \A i \in 1..Len(calls') : calls'[i] \in NonWritingCalls
       /\ (req = NoRequest /\ req'.route = "auth-with-ip")
             => IF resp'.kind = "success"
                THEN /\ Count(calls', "recordAuthResponse") = 1
                     /\ issued' = Append(issued, [collection |-> req'.collection,
                                                  record |-> resp'.record])
                ELSE issued' = issued
       /\ (req = NoRequest /\ req'.route = "logs") => issued' = issued]_vars

\* the same record got two sessions, a record was logged in between, and the
\* request just served is again a success for that record
C13_Witness ==
    /\ Len(issued) = 2
    /\ issued[1] = issued[2]
    /\ Len(emitted) >= 1
    /\ IsAuthRequest
    /\ resp.kind = "success"
    /\ resp.record = issued[2].record
    /\ store = Store(OpenList)

-----------------------------------------------------------------------------
(* tryCatch                                                                *)

\* C14: tryCatch never throws; it calls the operation once; it returns the
\* operation's value and null when the operation returns, null and the
\* thrown error when it throws, and never fills both slots
C14_TryCatchReturnsOneSlot ==
    fn = "tryCatch"
        => /\ ~out.threw
           /\ out.invocations = 1
           /\ Len(out.pair) = 2
           /\ ~arg.thunk.threw => out.pair = <<arg.thunk.val, Null>>
           /\ arg.thunk.threw => out.pair = <<Null, arg.thunk.val>>
           /\ out.pair[1] = Null \/ out.pair[2] = Null

\* the record lookup threw: the first slot is null and the second holds the
\* error
C14_Witness ==
    /\ fn = "tryCatch"
    /\ arg.thunk = Threw("findFirstRecordByData", Str("record lookup failed"))
    /\ out.pair = <<Null, Str("record lookup failed")>>
    /\ ~out.threw

-----------------------------------------------------------------------------
(* Malformed addresses and blocks                                          *)

\* an entry with a "/" whose prefix part is no integer 0..32
BadPrefix(cidr) ==
    LET parts == Split(cidr, "/")
    IN  /\ Len(parts) >= 2
        /\ ~\E p \in 0..32 : OctetNumeral[p] = parts[2]

\* C15: ipInCidr grants no membership to a caller address that is no
\* well-formed dotted quad, nor by an entry whose prefix part is empty,
\* non-numeric, negative or above 32
C15_MalformedInputNeverMatches ==
    (fn = "ipInCidr" /\ (~IsQuad(arg.ip) \/ BadPrefix(arg.cidr)))
        => ~out.member

====
